---- MODULE Spec2Model ----
(***************************************************************************)
(* A model of seastar's I/O queue (src/core/io_queue.cc): the process-wide *)
(* priority class registry, the ticket sizing policy, the per-class state  *)
(* table of each io_queue and the life cycle of a request                  *)
(* (queue_request -> dispatch callback -> complete / set_exception).       *)
(*                                                                         *)
(* Names (sstring) are small naturals, 0 standing for the empty string a   *)
(* default-constructed sstring holds.  The fair queue, the fair group, the *)
(* execution engine and the metrics registry are not part of io_queue.cc;  *)
(* the definitions whose names start with fq_, fg_ or metrics_ model them  *)
(* from their documented interface.                                        *)
(***************************************************************************)
EXTENDS Integers, Sequences, FiniteSets, TLC

(***************************************************************************)
(* Bounds of the model.                                                    *)
(***************************************************************************)
\* io_queue::_max_classes, scaled down: the number of registry slots.
max_classes == 2
\* Names are 0..NumNames (0 is the empty string).
NumNames == 2
\* Share values are 0..MaxShares (uint32_t in the code; no arithmetic is done on them).
MaxShares == 2

\* The io_queues of the process, one per shard, all drawing on one io_group.
NumQueues == 2
\* Requests admitted in one behaviour.
MaxReqs == 2
\* The steady clock runs from 0 to MaxTime (in seconds).
MaxTime == 1
\* Calls of register_one_priority_class and rename_one_priority_class made
\* while the queues run.
MaxRegistryCalls == 3
\* Classes one fair_queue registers in one behaviour (a creation that fails
\* leaves its class registered, so the number is not bounded by max_classes).
MaxFqClasses == 3
\* The multipliers the ticket sizing is tried with are 0..MaxMultiplier.
MaxMultiplier == 3

Ids == 0 .. (max_classes - 1)
Names == 0 .. NumNames
SharesVals == 0 .. MaxShares
\* No identity: what a call that returns no io_priority_class yields.
NoId == 0 - 1
Queues == 1 .. NumQueues
\* this_shard_id() in the methods of io_queue q: each queue lives on a shard of its own.
this_shard_id(q) == q - 1
\* The byte lengths of requests.
Lens == {512}
\* The byte lengths and kinds the ticket sizing is tried with.
TicketLens == {0, 1, 511, 512, 4096}
\* internal::io_request: is_read(), is_write(), or any other operation.
Kinds == {"read", "write", "other"}

\* io_queue::read_request_base_count and io_queue::request_ticket_size_shift
\* (declared in io_queue.hh): the base unit of the specification and its
\* granularity shift.
read_request_base_count == 1
request_ticket_size_shift == 9
\* io_queue::config of the queues of the model.
disk_req_write_to_read_multiplier == 2
disk_bytes_write_to_read_multiplier == 3

VARIABLES
    registered_shares,  \* io_queue::_registered_shares : [Ids -> uint32_t]
    registered_names,   \* io_queue::_registered_names  : [Ids -> sstring]
    aborted,            \* TRUE once an assert() has failed: the process is gone
    pcs,                \* the io_priority_class values handed out so far
    issued,             \* history: issued[n][s] = the identity register(n, s) returned first
    last,               \* history: the last call and its outcome
    priority_classes,   \* io_queue::_priority_classes, per queue: rows by owner, columns by id
    fq_classes,         \* per queue: the shares of the classes registered with its fair_queue
    queued_requests,    \* io_queue::_queued_requests, per queue
    requests_executing, \* io_queue::_requests_executing, per queue
    fg_outstanding,     \* the fair_group's outstanding total, a (weight, size) pair
    reqs,               \* the requests admitted: io_desc_read_write and the dispatch callback
    pending,            \* per queue: the call that has read _registered_shares and waits for the lock
    now,                \* std::chrono::steady_clock::now()
    tk,                 \* the ticket sizing on trial: its inputs and its result
    registry_calls,     \* history: the registry calls made while the queues run
    destroyed,          \* the io_queues whose destructor has run
    fq_pairs,           \* history, per queue: the (owner, id) each fair_queue class was registered for
    held                \* history, per queue: the (name, shares) pairs the registry slot of the
                        \* call in pending has held since line 243 read it

registry_vars == <<registered_shares, registered_names, aborted, pcs>>
queue_vars == <<priority_classes, fq_classes, queued_requests, requests_executing,
                fg_outstanding, reqs, pending, now>>
history_vars == <<issued, last, registry_calls>>
vars == <<registered_shares, registered_names, aborted, pcs, issued, last,
          priority_classes, fq_classes, queued_requests, requests_executing,
          fg_outstanding, reqs, pending, now, tk, registry_calls,
          destroyed, fq_pairs, held>>

(***************************************************************************)
(* The outcome of a call.                                                  *)
(***************************************************************************)
NoCall == [op |-> "none", q |-> 0, name |-> 0, shares |-> 0, pc |-> NoId, kind |-> "none",
           outcome |-> "none", ret |-> NoId]

\* A call on the registry and what it returned.
Call(op, name, shares, pc, outcome, ret) ==
    [op |-> op, q |-> 0, name |-> name, shares |-> shares, pc |-> pc, kind |-> "none",
     outcome |-> outcome, ret |-> ret]

\* A call of update_shares_for_class on io_queue q and how it ended.
UpdateCall(q, pc, shares, outcome) ==
    [op |-> "update_shares", q |-> q, name |-> 0, shares |-> shares, pc |-> pc, kind |-> "none",
     outcome |-> outcome, ret |-> NoId]

\* A call of io_queue::rename_priority_class on io_queue q (it returns nothing).
RenameCall(q, pc, new_name) ==
    [op |-> "rename_priority_class", q |-> q, name |-> new_name, shares |-> 0, pc |-> pc,
     kind |-> "none", outcome |-> "ok", ret |-> NoId]

\* A call of queue_request on io_queue q and how it ended (ret: the request admitted).
QueueCall(q, pc, kind, outcome, ret) ==
    [op |-> "queue_request", q |-> q, name |-> 0, shares |-> 0, pc |-> pc, kind |-> kind,
     outcome |-> outcome, ret |-> ret]

(***************************************************************************)
(* io_queue::register_one_priority_class, lines 135-153.                   *)
(* register_slot is the body of the for loop for slot i: it ends the call  *)
(* ("ok": return io_priority_class(i); "assert": the assert on line 148    *)
(* fails) or goes on to the next slot ("continue").                        *)
(***************************************************************************)
register_slot(i, name, shares) ==
    IF registered_shares[i] = 0
    THEN [outcome |-> "ok", ret |-> i,
          shares |-> [registered_shares EXCEPT ![i] = shares],
          names |-> [registered_names EXCEPT ![i] = name]]
    ELSE IF registered_names[i] # name
    THEN [outcome |-> "continue", ret |-> NoId,
          shares |-> registered_shares, names |-> registered_names]
    ELSE IF registered_shares[i] = shares
    THEN [outcome |-> "ok", ret |-> i,
          shares |-> registered_shares, names |-> registered_names]
    ELSE [outcome |-> "assert", ret |-> NoId,
          shares |-> registered_shares, names |-> registered_names]

\* The loop giving up one slot early.
RECURSIVE register_loop_one_short(_, _, _)
register_loop_one_short(i, name, shares) ==
    IF i >= max_classes - 1
    THEN [outcome |-> "no_room", ret |-> NoId,
          shares |-> registered_shares, names |-> registered_names]
    ELSE LET r == register_slot(i, name, shares)
         IN  IF r.outcome = "continue" THEN register_loop_one_short(i + 1, name, shares) ELSE r

\* The for loop of lines 137-151 and the throw of line 152 ("No more room ...").
RECURSIVE register_loop(_, _, _)
register_loop(i, name, shares) ==
    IF i >= max_classes
    THEN [outcome |-> "no_room", ret |-> NoId,
          shares |-> registered_shares, names |-> registered_names]
    ELSE LET r == register_slot(i, name, shares)
         IN  IF r.outcome = "continue" THEN register_loop(i + 1, name, shares) ELSE r

\* The history of first registrations: a call naming n forgets what other
\* share values of n were given; rename(pc, n) forgets what n and pc were given.
issued_after_register(name, shares) ==
    LET r == register_loop(0, name, shares)
    IN  [n \in Names |-> [s \in SharesVals |->
            IF n # name THEN issued[n][s]
            ELSE IF s # shares THEN NoId
            ELSE IF issued[n][s] = NoId /\ r.outcome = "ok" THEN r.ret
            ELSE issued[n][s]]]

\* The pairs a slot has held while a call that read its shares waits for the
\* lock, after the registry has become (names, shares).
held_after(names, shares) ==
    [q \in Queues |->
        IF pending[q].op = "none" THEN {}
        ELSE held[q] \cup {<<names[pending[q].pc], shares[pending[q].pc]>>}]

issued_after_rename(pc, new_name) ==
    [n \in Names |-> [s \in SharesVals |->
        IF n = new_name \/ issued[n][s] = pc THEN NoId ELSE issued[n][s]]]

register_one_priority_class(name, shares) ==
    /\ ~aborted
    /\ LET r == register_loop(0, name, shares)
       IN  /\ registered_shares' = r.shares
           /\ registered_names' = r.names
           /\ aborted' = (r.outcome = "assert")
           /\ pcs' = IF r.outcome = "ok" THEN pcs \cup {r.ret} ELSE pcs
           /\ held' = held_after(r.names, r.shares)
    /\ UNCHANGED <<queue_vars, tk, destroyed, fq_pairs>>

\* What the call returns, for the history.
register_returns(name, shares) ==
    LET r == register_loop(0, name, shares)
    IN  Call("register", name, shares, NoId, r.outcome, r.ret)

(***************************************************************************)
(* io_queue::rename_one_priority_class, lines 155-172.                     *)
(* rename_scan is the for loop: "break" (line 159, or the loop ran out),   *)
(* "same" (return false, line 163) or "collision" (the throw of line 165). *)
(***************************************************************************)
\* The scan without the throw of line 165.
RECURSIVE rename_scan_no_collision(_, _, _)
rename_scan_no_collision(i, pc, new_name) ==
    IF i >= max_classes THEN "break"
    ELSE IF registered_shares[i] = 0 THEN "break"
    ELSE IF registered_names[i] = new_name /\ i = pc THEN "same"
    ELSE rename_scan_no_collision(i + 1, pc, new_name)

RECURSIVE rename_scan(_, _, _)
rename_scan(i, pc, new_name) ==
    IF i >= max_classes THEN "break"
    ELSE IF registered_shares[i] = 0 THEN "break"
    ELSE IF registered_names[i] = new_name
    THEN IF i = pc THEN "same" ELSE "collision"
    ELSE rename_scan(i + 1, pc, new_name)

rename_one_priority_class(pc, new_name) ==
    /\ ~aborted
    /\ registered_names' =
          IF rename_scan(0, pc, new_name) = "break"
          THEN [registered_names EXCEPT ![pc] = new_name]
          ELSE registered_names
    /\ held' = held_after(registered_names', registered_shares)
    /\ UNCHANGED <<registered_shares, aborted, pcs, queue_vars, tk, destroyed, fq_pairs>>

\* What the call returns, for the history: true (line 171), false (line 163)
\* or the exception of line 165.
rename_returns(pc, new_name) ==
    LET r == rename_scan(0, pc, new_name)
    IN  Call("rename", new_name, 0, pc,
             IF r = "break" THEN "true" ELSE IF r = "same" THEN "false" ELSE "collision",
             NoId)


(***************************************************************************)
(* io_queue::request_fq_ticket, lines 272-286.  cfg is the queue's _config *)
(* (its two write-to-read multipliers).  ok = FALSE is the throw of line   *)
(* 282.  The values of the model stay far below the width of unsigned and  *)
(* size_t, so no product wraps.                                            *)
(***************************************************************************)
shift_right(x, n) == x \div (2 ^ n)

\* The sizing with the shift taken before the product.
request_fq_ticket_shift_first(cfg, kind, len) ==
    IF kind = "write"
    THEN [ok |-> TRUE, weight |-> cfg.req_mul,
          size |-> cfg.bytes_mul * shift_right(len, request_ticket_size_shift)]
    ELSE IF kind = "read"
    THEN [ok |-> TRUE, weight |-> read_request_base_count,
          size |-> read_request_base_count * shift_right(len, request_ticket_size_shift)]
    ELSE [ok |-> FALSE, weight |-> 0, size |-> 0]

request_fq_ticket(cfg, kind, len) ==
    IF kind = "write"
    THEN [ok |-> TRUE, weight |-> cfg.req_mul,
          size |-> shift_right(cfg.bytes_mul * len, request_ticket_size_shift)]
    ELSE IF kind = "read"
    THEN [ok |-> TRUE, weight |-> read_request_base_count,
          size |-> shift_right(read_request_base_count * len, request_ticket_size_shift)]
    ELSE [ok |-> FALSE, weight |-> 0, size |-> 0]

\* The _config of every queue of the model.
config == [req_mul |-> disk_req_write_to_read_multiplier,
           bytes_mul |-> disk_bytes_write_to_read_multiplier]

NoTicketTrial == [kind |-> "none", len |-> 0, req_mul |-> 0, bytes_mul |-> 0,
                  done |-> FALSE, result |-> [ok |-> FALSE, weight |-> 0, size |-> 0]]

\* One call of request_fq_ticket on the inputs chosen at the start.
size_ticket ==
    /\ ~tk.done
    /\ tk.kind # "none"
    /\ tk' = [tk EXCEPT !.done = TRUE,
                        !.result = request_fq_ticket([req_mul |-> tk.req_mul, bytes_mul |-> tk.bytes_mul],
                                                     tk.kind, tk.len)]
    /\ UNCHANGED <<registry_vars, history_vars, queue_vars, destroyed, fq_pairs, held>>

(***************************************************************************)
(* The per-class state table.  NoClass is a null unique_ptr.               *)
(***************************************************************************)
NoClass == [exists |-> FALSE]
NoPending == [op |-> "none"]

\* std::vector::resize(n) of a vector of unique_ptr (it only grows here).
resize(v, n) == IF n <= Len(v) THEN SubSeq(v, 1, n) ELSE v \o [k \in 1 .. (n - Len(v)) |-> NoClass]
\* std::vector::resize(n) of the vector of rows.
resize_rows(t, n) == IF n <= Len(t) THEN SubSeq(t, 1, n) ELSE t \o [k \in 1 .. (n - Len(t)) |-> <<>>]

\* Lines 234-241 of find_or_create_class: the table after the resizes.
resized(t, owner, id) ==
    IF owner >= Len(t)
    THEN LET t1 == resize_rows(t, owner + 1)
         IN  [t1 EXCEPT ![owner + 1] = resize(t1[owner + 1], id + 1)]
    ELSE IF id >= Len(t[owner + 1])
    THEN [t EXCEPT ![owner + 1] = resize(t[owner + 1], id + 1)]
    ELSE t

\* Line 242: do_insert || !_priority_classes[owner][id].
must_create(t, owner, id) ==
    IF owner >= Len(t) THEN TRUE
    ELSE IF id >= Len(t[owner + 1]) THEN TRUE
    ELSE ~t[owner + 1][id + 1].exists

\* metrics: a group of the same labels (shard, owner, mountpoint, class name)
\* is published already; add_group then throws double_registration.  The
\* labels of two queues differ in their shard.
metrics_double_registration(t, owner, name) ==
    \E row \in 1 .. Len(t) : \E col \in 1 .. Len(t[row]) :
        t[row][col].exists /\ row = owner + 1 /\ t[row][col].name = name

\* fair_queue::register_priority_class(shares): a new class, its handle is
\* its place in the queue's list of classes.
fq_register_priority_class(fq, shares) == Append(fq, shares)

\* priority_class_data::priority_class_data, lines 176-184.
priority_class_data(name, ptr) ==
    [exists |-> TRUE, ptr |-> ptr, bytes |-> 0, ops |-> 0, nr_queued |-> 0,
     queue_time |-> 1, name |-> name]

(***************************************************************************)
(* io_queue::find_or_create_class, lines 233-270, on the table t and the   *)
(* fair queue classes fq of one queue.  shares is what line 243 read,      *)
(* name what line 247 read.  ok = FALSE: register_stats threw, after the   *)
(* class was registered with the fair queue and before line 267.           *)
(***************************************************************************)
find_or_create_class(t, fq, id, owner, shares, name) ==
    LET t1 == resized(t, owner, id)
    IN  IF ~must_create(t, owner, id)
        THEN [ok |-> TRUE, t |-> t1, fq |-> fq]
        ELSE LET fq1 == fq_register_priority_class(fq, shares)
             IN  IF metrics_double_registration(t1, owner, name)
                 THEN [ok |-> FALSE, t |-> t1, fq |-> fq1]
                 ELSE [ok |-> TRUE, fq |-> fq1,
                       t |-> [t1 EXCEPT ![owner + 1][id + 1] = priority_class_data(name, Len(fq1))]]

(***************************************************************************)
(* The fair group and the fair queue.  A ticket is taken from the group    *)
(* when the fair queue dispatches the request and given back by            *)
(* fair_queue::notify_requests_finished.                                   *)
(***************************************************************************)
fg_grab(total, ticket) ==
    [weight |-> total.weight + ticket.weight, size |-> total.size + ticket.size]

fq_notify_requests_finished(total, ticket) ==
    [weight |-> total.weight - ticket.weight, size |-> total.size - ticket.size]

\* io_desc_read_write(ioq, ticket) with the captures of the dispatch callback
\* (lines 296-299): the request as the fair queue holds it.
io_desc_read_write(q, id, ticket, len, start) ==
    [q |-> q, id |-> id, ticket |-> ticket, len |-> len, start |-> start,
     state |-> "queued", resolved |-> 0, released |-> 0, result |-> "none"]

(***************************************************************************)
(* io_queue::queue_request, lines 288-313, from line 294 on, with the      *)
(* shares line 243 has read (when it ran).  Its outcomes: "exception"      *)
(* (find_or_create_class threw), "unsupported" (request_fq_ticket threw),  *)
(* both resolving the future at once, and "queued".                        *)
(***************************************************************************)
queue_request_body(q, id, len, kind, start, shares) ==
    LET owner == this_shard_id(q)
        c == find_or_create_class(priority_classes[q], fq_classes[q], id, owner,
                                  shares, registered_names[id])
        ticket == request_fq_ticket(config, kind, len)
    IN  /\ fq_classes' = [fq_classes EXCEPT ![q] = c.fq]
        /\ fq_pairs' = [fq_pairs EXCEPT ![q] =
               IF Len(c.fq) > Len(fq_classes[q]) THEN Append(@, <<owner, id>>) ELSE @]
        /\ IF c.ok /\ ticket.ok
           THEN /\ reqs' = Append(reqs, io_desc_read_write(q, id,
                                  [weight |-> ticket.weight, size |-> ticket.size], len, start))
                /\ priority_classes' = [priority_classes EXCEPT ![q] =
                       [c.t EXCEPT ![owner + 1][id + 1].nr_queued = @ + 1]]
                /\ queued_requests' = [queued_requests EXCEPT ![q] = @ + 1]
                /\ last' = QueueCall(q, id, kind, "queued", Len(reqs) + 1)
           ELSE /\ priority_classes' = [priority_classes EXCEPT ![q] = c.t]
                /\ last' = QueueCall(q, id, kind,
                                     IF c.ok THEN "unsupported" ELSE "exception", 0)
                /\ UNCHANGED <<reqs, queued_requests>>
        /\ UNCHANGED <<requests_executing, fg_outstanding, now>>

\* The calls of queue_request so far: those that have ended with a request
\* admitted and those in progress (at most MaxReqs are made).
calls_so_far == Len(reqs) + Cardinality({p \in Queues : pending[p] # NoPending})

\* A call of queue_request that finds its class: one step of the queue's shard.
queue_request(q, pc, len, kind) ==
    /\ ~aborted
    /\ pending[q] = NoPending
    /\ calls_so_far < MaxReqs
    /\ q \notin destroyed
    /\ ~must_create(priority_classes[q], this_shard_id(q), pc)
    /\ queue_request_body(q, pc, len, kind, now, 0)
    /\ UNCHANGED <<registry_vars, issued, registry_calls, pending, tk, destroyed, held>>

\* A call of queue_request that has to create its class, up to line 243:
\* _registered_shares is read without the lock; the name is read under the
\* lock (lines 245-248), which other shards may hold in between.
queue_request_enter(q, pc, len, kind) ==
    /\ ~aborted
    /\ pending[q] = NoPending
    /\ calls_so_far < MaxReqs
    /\ q \notin destroyed
    /\ must_create(priority_classes[q], this_shard_id(q), pc)
    /\ Len(fq_classes[q]) < MaxFqClasses
    /\ pending' = [pending EXCEPT ![q] =
           [op |-> "queue_request", pc |-> pc, len |-> len, kind |-> kind,
            start |-> now, shares |-> registered_shares[pc]]]
    /\ held' = [held EXCEPT ![q] = {<<registered_names[pc], registered_shares[pc]>>}]
    /\ last' = NoCall
    /\ UNCHANGED <<registry_vars, issued, registry_calls, priority_classes, fq_classes, queued_requests,
                   requests_executing, fg_outstanding, reqs, now, tk, destroyed, fq_pairs>>

\* ... and from the lock on.
queue_request_create(q) ==
    /\ ~aborted
    /\ pending[q].op = "queue_request"
    /\ queue_request_body(q, pending[q].pc, pending[q].len, pending[q].kind,
                          pending[q].start, pending[q].shares)
    /\ pending' = [pending EXCEPT ![q] = NoPending]
    /\ held' = [held EXCEPT ![q] = {}]
    /\ UNCHANGED <<registry_vars, issued, registry_calls, tk, destroyed>>

(***************************************************************************)
(* io_queue::update_shares_for_class, lines 315-321, from line 318 on,     *)
(* with the shares line 243 has read (when it ran).  "exception":          *)
(* find_or_create_class threw and the future fails.                        *)
(***************************************************************************)
\* priority_class::update_shares(new_shares) on the class of handle ptr.
fq_update_shares(fq, ptr, new_shares) == [fq EXCEPT ![ptr] = new_shares]

\* The body forwarding the new shares to every class of the fair queue.
update_shares_body_every_class(q, id, new_shares, shares) ==
    LET owner == this_shard_id(q)
        c == find_or_create_class(priority_classes[q], fq_classes[q], id, owner,
                                  shares, registered_names[id])
    IN  /\ fq_pairs' = [fq_pairs EXCEPT ![q] =
               IF Len(c.fq) > Len(fq_classes[q]) THEN Append(@, <<owner, id>>) ELSE @]
        /\ priority_classes' = [priority_classes EXCEPT ![q] = c.t]
        /\ fq_classes' = [fq_classes EXCEPT ![q] =
               IF c.ok THEN [k \in 1 .. Len(c.fq) |-> new_shares] ELSE c.fq]
        /\ last' = UpdateCall(q, id, new_shares, IF c.ok THEN "ok" ELSE "exception")
        /\ UNCHANGED <<queued_requests, requests_executing, fg_outstanding, reqs, now>>

update_shares_body(q, id, new_shares, shares) ==
    LET owner == this_shard_id(q)
        c == find_or_create_class(priority_classes[q], fq_classes[q], id, owner,
                                  shares, registered_names[id])
    IN  /\ fq_pairs' = [fq_pairs EXCEPT ![q] =
               IF Len(c.fq) > Len(fq_classes[q]) THEN Append(@, <<owner, id>>) ELSE @]
        /\ priority_classes' = [priority_classes EXCEPT ![q] = c.t]
        /\ fq_classes' = [fq_classes EXCEPT ![q] =
               IF c.ok THEN fq_update_shares(c.fq, c.t[owner + 1][id + 1].ptr, new_shares)
               ELSE c.fq]
        /\ last' = UpdateCall(q, id, new_shares, IF c.ok THEN "ok" ELSE "exception")
        /\ UNCHANGED <<queued_requests, requests_executing, fg_outstanding, reqs, now>>

\* A call that finds its class: one step of the queue's shard.
update_shares_for_class(q, pc, new_shares) ==
    /\ ~aborted
    /\ pending[q] = NoPending
    /\ q \notin destroyed
    /\ ~must_create(priority_classes[q], this_shard_id(q), pc)
    /\ update_shares_body(q, pc, new_shares, 0)
    /\ UNCHANGED <<registry_vars, issued, registry_calls, pending, tk, destroyed, held>>

\* A call that has to create its class, up to line 243 ...
update_shares_enter(q, pc, new_shares) ==
    /\ ~aborted
    /\ pending[q] = NoPending
    /\ q \notin destroyed
    /\ must_create(priority_classes[q], this_shard_id(q), pc)
    /\ Len(fq_classes[q]) < MaxFqClasses
    /\ pending' = [pending EXCEPT ![q] =
           [op |-> "update_shares", pc |-> pc, new_shares |-> new_shares,
            shares |-> registered_shares[pc]]]
    /\ held' = [held EXCEPT ![q] = {<<registered_names[pc], registered_shares[pc]>>}]
    /\ last' = NoCall
    /\ UNCHANGED <<registry_vars, issued, registry_calls, priority_classes, fq_classes, queued_requests,
                   requests_executing, fg_outstanding, reqs, now, tk, destroyed, fq_pairs>>

\* ... and from the lock on.
update_shares_create(q) ==
    /\ ~aborted
    /\ pending[q].op = "update_shares"
    /\ update_shares_body(q, pending[q].pc, pending[q].new_shares, pending[q].shares)
    /\ pending' = [pending EXCEPT ![q] = NoPending]
    /\ held' = [held EXCEPT ![q] = {}]
    /\ UNCHANGED <<registry_vars, issued, registry_calls, tk, destroyed>>

(***************************************************************************)
(* io_queue::rename_priority_class, lines 323-331, with                    *)
(* priority_class_data::rename, lines 186-197: register_stats publishes    *)
(* the entry's metrics under the new name and drops the old group (line    *)
(* 230), unless add_group throws double_registration, which is caught and  *)
(* leaves the entry published as it was.                                   *)
(***************************************************************************)
priority_class_data_rename(t, owner, id, new_name) ==
    IF metrics_double_registration(t, owner, new_name)
    THEN t
    ELSE [t EXCEPT ![owner + 1][id + 1].name = new_name]

\* The for loop of lines 325-330, from row owner on.
RECURSIVE rename_rows(_, _, _, _)
rename_rows(t, owner, id, new_name) ==
    IF owner >= Len(t) THEN t
    ELSE IF Len(t[owner + 1]) > id /\ t[owner + 1][id + 1].exists
    THEN rename_rows(priority_class_data_rename(t, owner, id, new_name), owner + 1, id, new_name)
    ELSE rename_rows(t, owner + 1, id, new_name)

rename_priority_class(q, pc, new_name) ==
    /\ ~aborted
    /\ q \notin destroyed
    /\ pending[q] = NoPending
    /\ priority_classes' = [priority_classes EXCEPT ![q] = rename_rows(@, 0, pc, new_name)]
    /\ last' = RenameCall(q, pc, new_name)
    /\ UNCHANGED <<registry_vars, issued, registry_calls, fq_classes, queued_requests,
                   requests_executing, fg_outstanding, reqs, pending, now, tk,
                   destroyed, fq_pairs, held>>

(***************************************************************************)
(* The dispatch callback of request r, lines 299-308, run by the fair      *)
(* queue of r's io_queue on its shard; submit_io hands the descriptor to   *)
(* the engine.                                                             *)
(***************************************************************************)
\* The callback without line 305 (pclass.queue_time is left as it was).
dispatched_delay_not_written(t, owner, id, len, delay) ==
    [t EXCEPT ![owner + 1][id + 1].nr_queued = @ - 1,
              ![owner + 1][id + 1].ops = @ + 1,
              ![owner + 1][id + 1].bytes = @ + len]

\* The callback without line 303 (pclass.ops++).
dispatched_ops_not_counted(t, owner, id, len, delay) ==
    [t EXCEPT ![owner + 1][id + 1].nr_queued = @ - 1,
              ![owner + 1][id + 1].bytes = @ + len,
              ![owner + 1][id + 1].queue_time = delay]

dispatched(t, owner, id, len, delay) ==
    [t EXCEPT ![owner + 1][id + 1].nr_queued = @ - 1,
              ![owner + 1][id + 1].ops = @ + 1,
              ![owner + 1][id + 1].bytes = @ + len,
              ![owner + 1][id + 1].queue_time = delay]

dispatch(r) ==
    /\ ~aborted
    /\ r \in DOMAIN reqs
    /\ reqs[r].state = "queued"
    /\ reqs[r].q \notin destroyed
    /\ pending[reqs[r].q] = NoPending
    /\ LET q == reqs[r].q
       IN  /\ queued_requests' = [queued_requests EXCEPT ![q] = @ - 1]
           /\ requests_executing' = [requests_executing EXCEPT ![q] = @ + 1]
           /\ priority_classes' = [priority_classes EXCEPT ![q] =
                  dispatched(@, this_shard_id(q), reqs[r].id, reqs[r].len, now - reqs[r].start)]
           /\ fg_outstanding' = fg_grab(fg_outstanding, reqs[r].ticket)
           /\ reqs' = [reqs EXCEPT ![r].state = "executing"]
           /\ last' = NoCall
    /\ UNCHANGED <<registry_vars, issued, registry_calls, fq_classes, pending, now, tk,
                   destroyed, fq_pairs, held>>

(***************************************************************************)
(* io_desc_read_write::complete and set_exception, lines 58-70, with       *)
(* io_queue::notify_requests_finished, lines 77-81.  The engine calls one  *)
(* of them on a descriptor it holds; delete this ends the descriptor.      *)
(***************************************************************************)
\* notify_requests_finished without line 80 (the ticket is not given back).
\* notify_requests_finished without line 79: _requests_executing stays.
notify_requests_finished_executing_kept(r) ==
    /\ requests_executing' = requests_executing
    /\ fg_outstanding' = fq_notify_requests_finished(fg_outstanding, reqs[r].ticket)

notify_requests_finished_keeps_ticket(r) ==
    /\ requests_executing' = [requests_executing EXCEPT ![reqs[r].q] = @ - 1]
    /\ fg_outstanding' = fg_outstanding

notify_requests_finished(r) ==
    /\ requests_executing' = [requests_executing EXCEPT ![reqs[r].q] = @ - 1]
    /\ fg_outstanding' = fq_notify_requests_finished(fg_outstanding, reqs[r].ticket)

\* set_exception without notify_requests_finished (line 60).
terminal_failure_not_notified(r, result) ==
    /\ ~aborted
    /\ r \in DOMAIN reqs
    /\ reqs[r].state = "executing"
    /\ reqs[r].q \notin destroyed
    /\ pending[reqs[r].q] = NoPending
    /\ IF result = "set_exception"
       THEN UNCHANGED <<requests_executing, fg_outstanding>>
       ELSE notify_requests_finished(r)
    /\ reqs' = [reqs EXCEPT ![r].released = @ + (IF result = "set_exception" THEN 0 ELSE 1),
                            ![r].resolved = @ + 1,
                            ![r].result = result,
                            ![r].state = "done"]
    /\ last' = NoCall
    /\ UNCHANGED <<registry_vars, issued, registry_calls, priority_classes, fq_classes, queued_requests,
                   pending, now, tk, destroyed, fq_pairs, held>>

terminal(r, result) ==
    /\ ~aborted
    /\ r \in DOMAIN reqs
    /\ reqs[r].state = "executing"
    /\ reqs[r].q \notin destroyed
    /\ pending[reqs[r].q] = NoPending
    /\ notify_requests_finished(r)
    /\ reqs' = [reqs EXCEPT ![r].released = @ + 1,
                            ![r].resolved = @ + 1,
                            ![r].result = result,
                            ![r].state = "done"]
    /\ last' = NoCall
    /\ UNCHANGED <<registry_vars, issued, registry_calls, priority_classes, fq_classes, queued_requests,
                   pending, now, tk, destroyed, fq_pairs, held>>

complete(r) == terminal(r, "complete")

(***************************************************************************)
(* The same two operations statement by statement: line 60 / 67            *)
(* (notify_requests_finished), line 61 / 68 (the promise is resolved),     *)
(* line 62 / 69 (delete this).  Between the first and the last the         *)
(* descriptor is "failing" (in set_exception) or "completing" (in          *)
(* complete), then "resolved".                                             *)
(***************************************************************************)
\* Lines 60 and 67 without the call.
terminal_notify_skipped(r, op) ==
    /\ ~aborted
    /\ r \in DOMAIN reqs
    /\ reqs[r].state = "executing"
    /\ reqs[r].q \notin destroyed
    /\ pending[reqs[r].q] = NoPending
    /\ reqs' = [reqs EXCEPT ![r].state = IF op = "complete" THEN "completing" ELSE "failing"]
    /\ last' = NoCall
    /\ UNCHANGED <<registry_vars, issued, registry_calls, priority_classes, fq_classes, queued_requests,
                   requests_executing, fg_outstanding, pending, now, tk, destroyed, fq_pairs, held>>

terminal_notify(r, op) ==
    /\ ~aborted
    /\ r \in DOMAIN reqs
    /\ reqs[r].state = "executing"
    /\ reqs[r].q \notin destroyed
    /\ pending[reqs[r].q] = NoPending
    /\ notify_requests_finished(r)
    /\ reqs' = [reqs EXCEPT ![r].released = @ + 1,
                            ![r].state = IF op = "complete" THEN "completing" ELSE "failing"]
    /\ last' = NoCall
    /\ UNCHANGED <<registry_vars, issued, registry_calls, priority_classes, fq_classes, queued_requests,
                   pending, now, tk, destroyed, fq_pairs, held>>

terminal_resolve(r) ==
    /\ ~aborted
    /\ r \in DOMAIN reqs
    /\ reqs[r].state \in {"completing", "failing"}
    /\ reqs' = [reqs EXCEPT ![r].resolved = @ + 1,
                            ![r].result = IF reqs[r].state = "completing" THEN "complete"
                                          ELSE "set_exception",
                            ![r].state = "resolved"]
    /\ last' = NoCall
    /\ UNCHANGED <<registry_vars, issued, registry_calls, priority_classes, fq_classes, queued_requests,
                   requests_executing, fg_outstanding, pending, now, tk, destroyed, fq_pairs, held>>

terminal_delete(r) ==
    /\ ~aborted
    /\ r \in DOMAIN reqs
    /\ reqs[r].state = "resolved"
    /\ reqs' = [reqs EXCEPT ![r].state = "done"]
    /\ last' = NoCall
    /\ UNCHANGED <<registry_vars, issued, registry_calls, priority_classes, fq_classes, queued_requests,
                   requests_executing, fg_outstanding, pending, now, tk, destroyed, fq_pairs, held>>

set_exception(r) == terminal(r, "set_exception")

(***************************************************************************)
(* io_queue::~io_queue, lines 112-126: every class of the table is         *)
(* unregistered from the fair queue, then the members (_fq, the table) are *)
(* destroyed.  The destructor reads neither _queued_requests nor           *)
(* _requests_executing.                                                    *)
(***************************************************************************)
\* fair_queue::unregister_priority_class faults on a class that still has
\* requests queued in the fair queue; a class without them is removed.
fq_unregister_faults(t) ==
    \E row \in 1 .. Len(t) : \E col \in 1 .. Len(t[row]) :
        t[row][col].exists /\ t[row][col].nr_queued > 0

destroy(q) ==
    /\ ~aborted
    /\ q \notin destroyed
    /\ pending[q] = NoPending
    /\ IF fq_unregister_faults(priority_classes[q])
       THEN /\ aborted' = TRUE
            /\ UNCHANGED <<destroyed, priority_classes, fq_classes>>
       ELSE /\ destroyed' = destroyed \cup {q}
            /\ priority_classes' = [priority_classes EXCEPT ![q] = <<>>]
            /\ fq_classes' = [fq_classes EXCEPT ![q] = <<>>]
            /\ UNCHANGED aborted
    /\ last' = NoCall
    /\ UNCHANGED <<registered_shares, registered_names, pcs, issued, registry_calls,
                   queued_requests, requests_executing, fg_outstanding, reqs, pending, now, tk,
                   fq_pairs, held>>

\* complete or set_exception on a descriptor whose io_queue is destroyed:
\* _ioq_ptr dangles, and line 50 uses it.  The process crashes, or the
\* freed memory is still there and the call runs as on a live queue.
terminal_after_destroy(r, result) ==
    /\ ~aborted
    /\ r \in DOMAIN reqs
    /\ reqs[r].state = "executing"
    /\ reqs[r].q \in destroyed
    /\ \E crash \in BOOLEAN :
          IF crash
          THEN /\ aborted' = TRUE
               /\ UNCHANGED <<requests_executing, fg_outstanding, reqs>>
          ELSE /\ notify_requests_finished(r)
               /\ reqs' = [reqs EXCEPT ![r].released = @ + 1,
                                       ![r].resolved = @ + 1,
                                       ![r].result = result,
                                       ![r].state = "done"]
               /\ UNCHANGED aborted
    /\ last' = NoCall
    /\ UNCHANGED <<registered_shares, registered_names, pcs, issued, registry_calls,
                   priority_classes, fq_classes, queued_requests, pending, now, tk,
                   destroyed, fq_pairs, held>>

\* The steady clock advances.
tick ==
    /\ ~aborted
    /\ now < MaxTime
    /\ now' = now + 1
    /\ last' = NoCall
    /\ UNCHANGED <<registry_vars, issued, registry_calls, priority_classes, fq_classes, queued_requests,
                   requests_executing, fg_outstanding, reqs, pending, tk, destroyed, fq_pairs, held>>

(***************************************************************************)
(* The registry alone: every shard may register and rename at any time;    *)
(* both run under _register_lock from their first to their last line, so   *)
(* each call is one step.  An io_priority_class can only be made by        *)
(* register_one_priority_class, so rename takes one of those handed out.   *)
(***************************************************************************)
Init ==
    /\ registered_shares = [i \in Ids |-> 0]
    /\ registered_names = [i \in Ids |-> 0]
    /\ aborted = FALSE
    /\ pcs = {}
    /\ issued = [n \in Names |-> [s \in SharesVals |-> NoId]]
    /\ last = NoCall
    /\ priority_classes = [q \in Queues |-> <<>>]
    /\ fq_classes = [q \in Queues |-> <<>>]
    /\ queued_requests = [q \in Queues |-> 0]
    /\ requests_executing = [q \in Queues |-> 0]
    /\ fg_outstanding = [weight |-> 0, size |-> 0]
    /\ reqs = <<>>
    /\ pending = [q \in Queues |-> NoPending]
    /\ now = 0
    /\ tk = NoTicketTrial
    /\ registry_calls = 0
    /\ destroyed = {}
    /\ fq_pairs = [q \in Queues |-> <<>>]
    /\ held = [q \in Queues |-> {}]

NextRegistry ==
    \/ \E name \in Names, shares \in SharesVals :
          /\ register_one_priority_class(name, shares)
          /\ issued' = issued_after_register(name, shares)
          /\ last' = register_returns(name, shares)
          /\ UNCHANGED registry_calls
    \/ \E pc \in pcs, new_name \in Names :
          /\ rename_one_priority_class(pc, new_name)
          /\ issued' = issued_after_rename(pc, new_name)
          /\ last' = rename_returns(pc, new_name)
          /\ UNCHANGED registry_calls

SpecRegistry == Init /\ [][NextRegistry]_vars

(***************************************************************************)
(* The ticket sizing alone, on every input of a bounded set.               *)
(***************************************************************************)
InitTicket ==
    /\ registered_shares = [i \in Ids |-> 0]
    /\ registered_names = [i \in Ids |-> 0]
    /\ aborted = FALSE
    /\ pcs = {}
    /\ issued = [n \in Names |-> [s \in SharesVals |-> NoId]]
    /\ last = NoCall
    /\ priority_classes = [q \in Queues |-> <<>>]
    /\ fq_classes = [q \in Queues |-> <<>>]
    /\ queued_requests = [q \in Queues |-> 0]
    /\ requests_executing = [q \in Queues |-> 0]
    /\ fg_outstanding = [weight |-> 0, size |-> 0]
    /\ reqs = <<>>
    /\ pending = [q \in Queues |-> NoPending]
    /\ now = 0
    /\ registry_calls = 0
    /\ destroyed = {}
    /\ fq_pairs = [q \in Queues |-> <<>>]
    /\ held = [q \in Queues |-> {}]
    /\ \E kind \in Kinds, len \in TicketLens, rm \in 0 .. MaxMultiplier, bm \in 0 .. MaxMultiplier :
          tk = [NoTicketTrial EXCEPT !.kind = kind, !.len = len, !.req_mul = rm, !.bytes_mul = bm]

NextTicket == size_ticket

SpecTicket == InitTicket /\ [][NextTicket]_vars

(***************************************************************************)
(* The registry and one io_queue: the shards register and rename classes   *)
(* (MaxRegistryCalls times at most) while requests are queued on the first *)
(* io_queue, its fair queue dispatches them and the engine completes them. *)
(***************************************************************************)
first_queue == CHOOSE q \in Queues : \A p \in Queues : q <= p

NextQueue ==
    \/ \E name \in Names, shares \in SharesVals :
          /\ registry_calls < MaxRegistryCalls
          /\ register_one_priority_class(name, shares)
          /\ registry_calls' = registry_calls + 1
          /\ issued' = issued /\ last' = NoCall
    \/ \E pc \in pcs, new_name \in Names :
          /\ registry_calls < MaxRegistryCalls
          /\ rename_one_priority_class(pc, new_name)
          /\ registry_calls' = registry_calls + 1
          /\ issued' = issued /\ last' = NoCall
    \/ \E pc \in pcs, len \in Lens, kind \in Kinds : queue_request(first_queue, pc, len, kind)
    \/ \E pc \in pcs, len \in Lens, kind \in Kinds : queue_request_enter(first_queue, pc, len, kind)
    \/ queue_request_create(first_queue)
    \/ \E r \in 1 .. MaxReqs : dispatch(r)
    \/ \E r \in 1 .. MaxReqs : complete(r)
    \/ \E r \in 1 .. MaxReqs : set_exception(r)
    \/ tick

SpecQueue == Init /\ [][NextQueue]_vars

(***************************************************************************)
(* The io_queues of one io_group, after the process has registered its     *)
(* classes: every slot of the registry holds a class of a name and a       *)
(* shares value of its own, and the registry is left alone.                *)
(***************************************************************************)
InitGroup ==
    /\ registered_shares = [i \in Ids |-> 1 + (i % MaxShares)]
    /\ registered_names = [i \in Ids |-> 1 + (i % NumNames)]
    /\ aborted = FALSE
    /\ pcs = Ids
    /\ issued = [n \in Names |-> [s \in SharesVals |-> NoId]]
    /\ last = NoCall
    /\ priority_classes = [q \in Queues |-> <<>>]
    /\ fq_classes = [q \in Queues |-> <<>>]
    /\ queued_requests = [q \in Queues |-> 0]
    /\ requests_executing = [q \in Queues |-> 0]
    /\ fg_outstanding = [weight |-> 0, size |-> 0]
    /\ reqs = <<>>
    /\ pending = [q \in Queues |-> NoPending]
    /\ now = 0
    /\ tk = NoTicketTrial
    /\ registry_calls = 0
    /\ destroyed = {}
    /\ fq_pairs = [q \in Queues |-> <<>>]
    /\ held = [q \in Queues |-> {}]

NextGroup ==
    \/ \E q \in Queues, pc \in pcs, len \in Lens, kind \in Kinds : queue_request(q, pc, len, kind)
    \/ \E q \in Queues, pc \in pcs, len \in Lens, kind \in Kinds : queue_request_enter(q, pc, len, kind)
    \/ \E q \in Queues : queue_request_create(q)
    \/ \E r \in 1 .. MaxReqs : dispatch(r)
    \/ \E r \in 1 .. MaxReqs : complete(r)
    \/ \E r \in 1 .. MaxReqs : set_exception(r)
    \/ tick

SpecGroup == InitGroup /\ [][NextGroup]_vars

(***************************************************************************)
(* The io_queues of one io_group under the scheduling the program relies   *)
(* on: a shard that waits for _register_lock gets it, the fair queue calls *)
(* the dispatch callback of every request it holds, and the engine calls   *)
(* complete or set_exception on every descriptor submitted to it.          *)
(***************************************************************************)
NextLive ==
    \/ \E q \in Queues, pc \in pcs, len \in Lens, kind \in Kinds : queue_request(q, pc, len, kind)
    \/ \E q \in Queues, pc \in pcs, len \in Lens, kind \in Kinds : queue_request_enter(q, pc, len, kind)
    \/ \E q \in Queues : queue_request_create(q)
    \/ \E r \in 1 .. MaxReqs : dispatch(r)
    \/ \E r \in 1 .. MaxReqs : complete(r)
    \/ \E r \in 1 .. MaxReqs : set_exception(r)

FairLive ==
    /\ \A q \in Queues : WF_vars(queue_request_create(q))
    /\ \A r \in 1 .. MaxReqs : WF_vars(dispatch(r))
    /\ \A r \in 1 .. MaxReqs : WF_vars(complete(r) \/ set_exception(r))

SpecLive == InitGroup /\ [][NextLive]_vars /\ FairLive

(***************************************************************************)
(* The io_queues of one io_group, each of which may be destroyed at any    *)
(* time its shard is not inside one of its calls.                          *)
(***************************************************************************)
NextDestroy ==
    \/ \E q \in Queues, pc \in pcs, len \in Lens, kind \in Kinds : queue_request(q, pc, len, kind)
    \/ \E q \in Queues, pc \in pcs, len \in Lens, kind \in Kinds : queue_request_enter(q, pc, len, kind)
    \/ \E q \in Queues : queue_request_create(q)
    \/ \E r \in 1 .. MaxReqs : dispatch(r)
    \/ \E r \in 1 .. MaxReqs : complete(r)
    \/ \E r \in 1 .. MaxReqs : set_exception(r)
    \/ \E q \in Queues : destroy(q)
    \/ \E r \in 1 .. MaxReqs, result \in {"complete", "set_exception"} : terminal_after_destroy(r, result)

SpecDestroy == InitGroup /\ [][NextDestroy]_vars

(***************************************************************************)
(* The registry and the class table of one io_queue: the shards register   *)
(* and rename classes (MaxRegistryCalls times at most) while the first     *)
(* io_queue gets queue_request and update_shares_for_class calls.          *)
(***************************************************************************)
NextClasses ==
    \/ \E name \in Names, shares \in SharesVals :
          /\ registry_calls < MaxRegistryCalls
          /\ register_one_priority_class(name, shares)
          /\ registry_calls' = registry_calls + 1
          /\ issued' = issued /\ last' = NoCall
    \/ \E pc \in pcs, new_name \in Names :
          /\ registry_calls < MaxRegistryCalls
          /\ rename_one_priority_class(pc, new_name)
          /\ registry_calls' = registry_calls + 1
          /\ issued' = issued /\ last' = NoCall
    \/ \E pc \in pcs, len \in Lens, kind \in Kinds : queue_request(first_queue, pc, len, kind)
    \/ \E pc \in pcs, len \in Lens, kind \in Kinds : queue_request_enter(first_queue, pc, len, kind)
    \/ queue_request_create(first_queue)
    \/ \E pc \in pcs, new_shares \in SharesVals : update_shares_for_class(first_queue, pc, new_shares)
    \/ \E pc \in pcs, new_shares \in SharesVals : update_shares_enter(first_queue, pc, new_shares)
    \/ update_shares_create(first_queue)

SpecClasses == Init /\ [][NextClasses]_vars

(***************************************************************************)
(* The io_queues of one io_group with complete and set_exception taken     *)
(* statement by statement, as a caller or another shard may observe them.  *)
(***************************************************************************)
NextTerminal ==
    \/ \E q \in Queues, pc \in pcs, len \in Lens, kind \in Kinds : queue_request(q, pc, len, kind)
    \/ \E q \in Queues, pc \in pcs, len \in Lens, kind \in Kinds : queue_request_enter(q, pc, len, kind)
    \/ \E q \in Queues : queue_request_create(q)
    \/ \E r \in 1 .. MaxReqs : dispatch(r)
    \/ \E r \in 1 .. MaxReqs, op \in {"complete", "set_exception"} : terminal_notify(r, op)
    \/ \E r \in 1 .. MaxReqs : terminal_resolve(r)
    \/ \E r \in 1 .. MaxReqs : terminal_delete(r)

SpecTerminal == InitGroup /\ [][NextTerminal]_vars

(***************************************************************************)
(* Renaming: the classes are registered, the                               *)
(* first io_queue creates its entries on the first request of a class,     *)
(* shards rename classes in the registry (MaxRegistryCalls times at most)  *)
(* and each io_queue is told, at some later time, the name the registry    *)
(* now has for an identity.                                                *)
(***************************************************************************)
NextRename ==
    \/ \E pc \in pcs, new_name \in Names :
          /\ registry_calls < MaxRegistryCalls
          /\ rename_one_priority_class(pc, new_name)
          /\ registry_calls' = registry_calls + 1
          /\ issued' = issued /\ last' = NoCall
    \/ \E q \in {first_queue}, pc \in pcs, len \in Lens, kind \in Kinds : queue_request(q, pc, len, kind)
    \/ \E q \in {first_queue}, pc \in pcs, len \in Lens, kind \in Kinds : queue_request_enter(q, pc, len, kind)
    \/ queue_request_create(first_queue)
    \/ \E q \in Queues, pc \in pcs :
          rename_priority_class(q, pc, registered_names[pc])

SpecRename == InitGroup /\ [][NextRename]_vars

(***************************************************************************)
(* The registry's claims.  A step of SpecRegistry is one call; last' names *)
(* the call and its outcome, the unprimed variables are the registry       *)
(* before the call.                                                        *)
(***************************************************************************)
occupied(i) == registered_shares[i] # 0

\* The identities whose occupied slot holds name n.
owners_of(n) == {i \in Ids : occupied(i) /\ registered_names[i] = n}

registry_unchanged ==
    /\ registered_shares' = registered_shares
    /\ registered_names' = registered_names

\* C2 (as claimed): for every name n and every shares value s, once
\* register_one_priority_class(n, s) has returned identity A, a later
\* register_one_priority_class(n, s) returns A again and leaves the registry
\* unchanged, whatever calls on other names and identities came in between.
RegisterIdempotent ==
    [][(last'.op = "register" /\ issued[last'.name][last'.shares] # NoId)
         => /\ last'.outcome = "ok"
            /\ last'.ret = issued[last'.name][last'.shares]
            /\ registry_unchanged]_vars

\* C2, for the share values the registry can tell from a free slot: the
\* same statement for every shares value other than 0.
RegisterIdempotentNonzeroShares ==
    [][(last'.op = "register" /\ last'.shares # 0 /\ issued[last'.name][last'.shares] # NoId)
         => /\ last'.outcome = "ok"
            /\ last'.ret = issued[last'.name][last'.shares]
            /\ registry_unchanged]_vars

\* A repeated registration with a non-zero shares value has returned the first identity.
RegisterIdempotentWitness ==
    /\ last.op = "register" /\ last.outcome = "ok" /\ last.shares # 0
    /\ \E i \in Ids : i # last.ret /\ occupied(i)
    /\ issued[last.name][last.shares] = last.ret
    /\ registered_names[last.ret] = last.name

\* The identities register_one_priority_class has returned for name n with
\* a shares value other than s, whose slot still holds n and that value.
registered_with_other_shares(n, s) ==
    {i \in Ids : \E t \in SharesVals \ {s} :
        /\ issued[n][t] = i
        /\ registered_names[i] = n
        /\ registered_shares[i] = t}

\* C3 (as claimed): register_one_priority_class(name, shares) called when
\* name is already registered with a different shares value ends in the
\* fault (the assert of line 148): it returns no identity, occupies no slot
\* and leaves every slot's name and shares as they were.
RegisterMismatchRejected ==
    [][(/\ last'.op = "register"
        /\ registered_with_other_shares(last'.name, last'.shares) # {})
         => /\ last'.outcome = "assert"
            /\ last'.ret = NoId
            /\ aborted'
            /\ pcs' = pcs
            /\ registry_unchanged]_vars

\* C3, for a name held by an occupied slot (one whose shares are not 0).
RegisterMismatchFaults ==
    [][(/\ last'.op = "register"
        /\ \E i \in owners_of(last'.name) : registered_shares[i] # last'.shares)
         => /\ last'.outcome = "assert"
            /\ last'.ret = NoId
            /\ aborted'
            /\ pcs' = pcs
            /\ registry_unchanged]_vars

\* A registration has met its name with other shares and faulted.
RegisterMismatchWitness ==
    /\ last.op = "register" /\ last.outcome = "assert" /\ aborted
    /\ \E i \in owners_of(last.name) : registered_shares[i] # last.shares

\* C4: when every slot is occupied and no slot holds the name, the call
\* fails with "No more room" and the names and shares are as before; and
\* it never fails so while a free slot exists.
RegisterCapacityExceeded ==
    [][last'.op = "register"
         => /\ ((\A i \in Ids : occupied(i)) /\ owners_of(last'.name) = {})
                 => (last'.outcome = "no_room" /\ last'.ret = NoId /\ registry_unchanged)
            /\ last'.outcome = "no_room"
                 => ((\A i \in Ids : occupied(i)) /\ registry_unchanged)]_vars

\* A registration has failed for lack of room, with every slot occupied.
RegisterCapacityWitness ==
    /\ last.op = "register" /\ last.outcome = "no_room"
    /\ \A i \in Ids : occupied(i) /\ registered_names[i] # last.name

\* C5 (as claimed): rename_one_priority_class(pc, n) fails with the name
\* collision and changes nothing when n belongs to another identity;
\* returns false and changes nothing when n is already pc's own name;
\* otherwise returns true, sets pc's name to n and changes nothing else.
RenameOutcomes ==
    [][last'.op = "rename"
         => LET pc == last'.pc
                n == last'.name
            IN  IF owners_of(n) \ {pc} # {}
                THEN last'.outcome = "collision" /\ registry_unchanged
                ELSE IF registered_names[pc] = n
                THEN last'.outcome = "false" /\ registry_unchanged
                ELSE /\ last'.outcome = "true"
                     /\ registered_names' = [registered_names EXCEPT ![pc] = n]
                     /\ registered_shares' = registered_shares]_vars

\* C5, for an identity whose slot is occupied.
RenameOutcomesOccupied ==
    [][(last'.op = "rename" /\ occupied(last'.pc))
         => LET pc == last'.pc
                n == last'.name
            IN  IF owners_of(n) \ {pc} # {}
                THEN last'.outcome = "collision" /\ registry_unchanged
                ELSE IF registered_names[pc] = n
                THEN last'.outcome = "false" /\ registry_unchanged
                ELSE /\ last'.outcome = "true"
                     /\ registered_names' = [registered_names EXCEPT ![pc] = n]
                     /\ registered_shares' = registered_shares]_vars

\* C6: no two distinct identities whose slots are occupied hold the same name.
NameMapsToOneIdentity ==
    \A i, j \in Ids :
        (i # j /\ occupied(i) /\ occupied(j)) => registered_names[i] # registered_names[j]

\* Two slots are occupied and a rename has just given one of them a new name.
NameMapsToOneIdentityWitness ==
    /\ last.op = "rename" /\ last.outcome = "true"
    /\ occupied(last.pc)
    /\ \E j \in Ids : j # last.pc /\ occupied(j)

(***************************************************************************)
(* The ticket sizing's claim.                                              *)
(***************************************************************************)
\* The sizing as the specification words it.
reference_ticket(kind, len, req_mul, bytes_mul) ==
    CASE kind = "read" -> [ok |-> TRUE, weight |-> 1, size |-> len \div (2 ^ request_ticket_size_shift)]
      [] kind = "write" -> [ok |-> TRUE, weight |-> req_mul,
                            size |-> (len * bytes_mul) \div (2 ^ request_ticket_size_shift)]
      [] OTHER -> [ok |-> FALSE, weight |-> 0, size |-> 0]

\* C7: request_fq_ticket agrees with the reference sizing on every kind,
\* byte length and pair of multipliers of the bounded set: a read weighs 1
\* and has size len >> shift, a write weighs the request multiplier and has
\* size (len * byte multiplier) >> shift, any other kind gets no ticket; a
\* 4096-byte write under multipliers 2 and 3 weighs 2 and has size 12288 >> shift.
TicketAgreesWithReference ==
    tk.done =>
        /\ tk.result = reference_ticket(tk.kind, tk.len, tk.req_mul, tk.bytes_mul)
        /\ (tk.kind = "write" /\ tk.len = 4096 /\ tk.req_mul = 2 /\ tk.bytes_mul = 3)
              => (tk.result.weight = 2
                  /\ tk.result.size = 12288 \div (2 ^ request_ticket_size_shift))
        /\ tk.kind = "other" => ~tk.result.ok

\* A write was sized whose size shows the product taken before the shift.
TicketWitness ==
    /\ tk.done /\ tk.kind = "write" /\ tk.len = 511 /\ tk.bytes_mul = 3
    /\ tk.result.ok /\ tk.result.size = 2

(***************************************************************************)
(* The claims on the life cycle of a request.                              *)
(***************************************************************************)
no_ticket == [weight |-> 0, size |-> 0]

\* The tickets of the requests among rs, summed.
RECURSIVE sum_tickets(_)
sum_tickets(rs) ==
    IF rs = {} THEN no_ticket
    ELSE LET r == CHOOSE x \in rs : TRUE
         IN  fg_grab(sum_tickets(rs \ {r}), reqs[r].ticket)

\* C1: every admitted request gets exactly one of complete / set_exception:
\* until then its result is not resolved and its ticket not released, from
\* then on its result is resolved once and its ticket released once; and
\* the group's outstanding total is the sum of the tickets, as computed at
\* admission, of the requests dispatched and not completed, on whatever
\* queue, so each completion gives back what its request took.
ExactlyOneCompletion ==
    /\ \A r \in DOMAIN reqs :
          /\ reqs[r].state \in {"queued", "executing", "done"}
          /\ reqs[r].state # "done"
                => (reqs[r].resolved = 0 /\ reqs[r].released = 0 /\ reqs[r].result = "none")
          /\ reqs[r].state = "done"
                => (reqs[r].resolved = 1 /\ reqs[r].released = 1
                    /\ reqs[r].result \in {"complete", "set_exception"})
    /\ fg_outstanding = sum_tickets({r \in DOMAIN reqs : reqs[r].state = "executing"})
    /\ (\A r \in DOMAIN reqs : reqs[r].state # "executing") => fg_outstanding = no_ticket

\* Two requests of different tickets on two queues: one completed and one
\* failed, and the group's total is back to nothing.
ExactlyOneCompletionWitness ==
    \E r1, r2 \in DOMAIN reqs :
        /\ reqs[r1].q # reqs[r2].q
        /\ reqs[r1].ticket # reqs[r2].ticket
        /\ reqs[r1].state = "done" /\ reqs[r1].result = "complete"
        /\ reqs[r2].state = "done" /\ reqs[r2].result = "set_exception"
        /\ fg_outstanding = no_ticket

\* The classes of queue q that exist, as (owner, id) pairs.
classes(q) ==
    {<<owner, id>> \in (0 .. NumQueues) \X Ids :
        /\ owner < Len(priority_classes[q])
        /\ id < Len(priority_classes[q][owner + 1])
        /\ priority_classes[q][owner + 1][id + 1].exists}

class(q, owner, id) == priority_classes[q][owner + 1][id + 1]

\* C8 (as claimed): a queue_request of a kind that is neither read nor
\* write resolves at once with the unsupported-operation error and queues
\* nothing: no request is handed to the fair queue, the counters of the
\* classes and of the queue and the group's total stay as they are.
UnsupportedQueuesNothing ==
    [][\A q \in Queues :
          (last'.op = "queue_request" /\ last'.q = q /\ last'.kind \notin {"read", "write"})
            => /\ last'.outcome = "unsupported"
               /\ reqs' = reqs
               /\ queued_requests' = queued_requests
               /\ requests_executing' = requests_executing
               /\ fg_outstanding' = fg_outstanding
               /\ \A c \in classes(q) :
                     class(q, c[1], c[2])'.nr_queued = class(q, c[1], c[2]).nr_queued
               /\ \A c \in classes(q)' \ classes(q) :
                     class(q, c[1], c[2])'.nr_queued = 0]_vars

\* C9 (as claimed): when queue_request fails with the unsupported-operation
\* error, the classes that exist in the queue's table and the classes
\* registered with its fair queue are those of before the call.
UnsupportedMutatesNothing ==
    [][\A q \in Queues :
          (last'.op = "queue_request" /\ last'.q = q /\ last'.outcome = "unsupported")
            => /\ classes(q)' = classes(q)
               /\ fq_classes' = fq_classes]_vars

ops_of(q, owner, id) == IF <<owner, id>> \in classes(q) THEN class(q, owner, id).ops ELSE 0
bytes_of(q, owner, id) == IF <<owner, id>> \in classes(q) THEN class(q, owner, id).bytes ELSE 0

\* The requests of class (q, owner, id) the step dispatches.
dispatched_now(q, owner, id) ==
    {r \in DOMAIN reqs :
        /\ reqs[r].q = q /\ this_shard_id(q) = owner /\ reqs[r].id = id
        /\ reqs[r].state = "queued" /\ reqs'[r].state = "executing"}

\* C10: the ops and bytes of a class change only when one of its requests
\* is dispatched, by 1 and by the request's byte length; admission and
\* completion leave them alone; and ops is the number of the class's
\* requests dispatched so far.
OpsAndBytesCountDispatches ==
    [][\A q \in Queues, owner \in 0 .. NumQueues, id \in Ids :
          LET d == dispatched_now(q, owner, id)
          IN  /\ Cardinality(d) <= 1
              /\ ops_of(q, owner, id)' = ops_of(q, owner, id) + Cardinality(d)
              /\ bytes_of(q, owner, id)' =
                    bytes_of(q, owner, id) + (IF d = {} THEN 0 ELSE reqs[CHOOSE r \in d : TRUE].len)
              /\ ops_of(q, owner, id)' =
                    Cardinality({r \in DOMAIN reqs' :
                        /\ reqs'[r].q = q /\ this_shard_id(q) = owner /\ reqs'[r].id = id
                        /\ reqs'[r].state \in {"executing", "done"}})]_vars

\* A class has had one request dispatched and completed and holds another
\* that is queued and not counted.
OpsAndBytesWitness ==
    \E q \in Queues : \E c \in classes(q) :
        /\ class(q, c[1], c[2]).ops = 1
        /\ class(q, c[1], c[2]).bytes = 512
        /\ class(q, c[1], c[2]).nr_queued = 1
        /\ \E r \in DOMAIN reqs : reqs[r].q = q /\ reqs[r].id = c[2] /\ reqs[r].state = "done"

\* C11: the queue delay of a class that exists changes only in the step that
\* dispatches one of its requests, to (the time of the dispatch - the time
\* taken on entry to queue_request); admission, completion, failure and the
\* passing of time leave it as it is.
QueueDelayWrittenAtDispatch ==
    [][\A q \in Queues : \A c \in classes(q) :
          LET d == dispatched_now(q, c[1], c[2])
          IN  class(q, c[1], c[2])'.queue_time =
                 IF d = {} THEN class(q, c[1], c[2]).queue_time
                 ELSE now - reqs[CHOOSE r \in d : TRUE].start]_vars

\* A request admitted and dispatched at time 0 is done at time 1, and its
\* class still records the delay 0.
QueueDelayWitness ==
    \E r \in DOMAIN reqs :
        /\ reqs[r].state = "done" /\ reqs[r].start = 0 /\ now = 1
        /\ <<this_shard_id(reqs[r].q), reqs[r].id>> \in classes(reqs[r].q)
        /\ class(reqs[r].q, this_shard_id(reqs[r].q), reqs[r].id).ops = 1
        /\ class(reqs[r].q, this_shard_id(reqs[r].q), reqs[r].id).queue_time = 0

\* C12: under the fair queue's and the engine's scheduling, every request
\* admitted is eventually done, its result resolved once and its ticket
\* released once, by complete or by set_exception; and again and again
\* (for good once admissions stop) every io_queue has no request queued and
\* none executing.
EveryRequestCompletes ==
    /\ \A r \in 1 .. MaxReqs :
          (r \in DOMAIN reqs) ~>
             (/\ r \in DOMAIN reqs
              /\ reqs[r].state = "done"
              /\ reqs[r].resolved = 1
              /\ reqs[r].released = 1)
    /\ []<>(\A q \in Queues : queued_requests[q] = 0 /\ requests_executing[q] = 0)

\* Every request that can be admitted is done, one of them failed, and the
\* queues are idle.
EveryRequestCompletesWitness ==
    /\ Len(reqs) = MaxReqs
    /\ \A r \in DOMAIN reqs : reqs[r].state = "done"
    /\ \E r \in DOMAIN reqs : reqs[r].result = "set_exception"
    /\ \E r \in DOMAIN reqs : reqs[r].result = "complete"
    /\ \A q \in Queues : queued_requests[q] = 0 /\ requests_executing[q] = 0

\* C13 (as claimed): the destructor of an io_queue that has a request
\* queued or executing faults, so in no state is an io_queue destroyed
\* while one of its requests is admitted and not completed.
DestroyedQueueHasNoOutstanding ==
    \A r \in DOMAIN reqs : reqs[r].q \in destroyed => reqs[r].state = "done"

\* The counters of a class.
counters(c) == <<c.bytes, c.ops, c.nr_queued, c.queue_time>>

\* C14 (as claimed): over any sequence of queue_request and
\* update_shares_for_class calls the fair queue registers at most one class
\* per (owner, identity) pair; and a call leaves every entry that exists in
\* place, with its class handle and its counters (but for the queued count
\* of the class that admits a request), also when the table grows.
FindOrCreateIdempotent ==
    /\ [](\A q \in Queues : \A i, j \in DOMAIN fq_pairs[q] :
             i # j => fq_pairs[q][i] # fq_pairs[q][j])
    /\ [][\A q \in Queues : \A c \in classes(q) :
             (last'.op \in {"queue_request", "update_shares"} /\ last'.q = q)
               => /\ c \in classes(q)'
                  /\ class(q, c[1], c[2])'.ptr = class(q, c[1], c[2]).ptr
                  /\ class(q, c[1], c[2])'.name = class(q, c[1], c[2]).name
                  /\ counters(class(q, c[1], c[2]))' =
                        IF last'.outcome = "queued" /\ last'.pc = c[2]
                        THEN <<class(q, c[1], c[2]).bytes, class(q, c[1], c[2]).ops,
                               class(q, c[1], c[2]).nr_queued + 1, class(q, c[1], c[2]).queue_time>>
                        ELSE counters(class(q, c[1], c[2]))]_vars

\* C15 (as claimed): when find_or_create_class creates a class, the name and
\* the shares it uses are a pair the registry slot of the identity held
\* together at one instant of the call, whatever register and rename calls
\* other shards make meanwhile.
CreationReadsOnePair ==
    [][\A q \in Queues :
          (pending[q].op # "none" /\ pending'[q].op = "none")
            => <<registered_names[pending[q].pc], pending[q].shares>> \in held[q]]_vars

\* The requests of io_queue q in state st.
requests_in(q, st) == {r \in DOMAIN reqs : reqs[r].q = q /\ reqs[r].state = st}

\* C16 (as claimed): a class none of whose requests has been dispatched
\* (ops = 0) has bytes 0, a last queue delay of 0, and a queued count equal
\* to the number of its requests that wait.
ZeroedStatsBlock ==
    \A q \in Queues : \A c \in classes(q) :
        class(q, c[1], c[2]).ops = 0
          => /\ class(q, c[1], c[2]).bytes = 0
             /\ class(q, c[1], c[2]).queue_time = 0
             /\ class(q, c[1], c[2]).nr_queued =
                   Cardinality({r \in requests_in(q, "queued") : reqs[r].id = c[2]})

\* C17: in complete and in set_exception alike, when the result is resolved
\* the ticket has been released (once) and is back in the group and the
\* executing counter has been decremented; and the descriptor is discarded
\* only once the result is resolved.
ReleasedBeforeResolved ==
    /\ \A r \in DOMAIN reqs :
          /\ reqs[r].resolved = 1 => reqs[r].released = 1
          /\ reqs[r].state \in {"resolved", "done"} <=> reqs[r].resolved = 1
          /\ reqs[r].state \in {"completing", "failing"}
                => (reqs[r].released = 1 /\ reqs[r].result = "none")
    /\ \A q \in Queues : requests_executing[q] = Cardinality(requests_in(q, "executing"))
    /\ fg_outstanding = sum_tickets({r \in DOMAIN reqs : reqs[r].state = "executing"})

\* A caller observes the failure of its request, the descriptor not yet
\* discarded, while the group has nothing outstanding.
ReleasedBeforeResolvedWitness ==
    \E r \in DOMAIN reqs :
        /\ reqs[r].state = "resolved" /\ reqs[r].result = "set_exception"
        /\ reqs[r].ticket # no_ticket
        /\ fg_outstanding = no_ticket
        /\ requests_executing[reqs[r].q] = 0

\* The live shares of class c of io_queue q: those of its fair queue class.
live_shares(q, c) == fq_classes[q][class(q, c[1], c[2]).ptr]

entries_of(q, pc) == {c \in classes(q) : c[2] = pc}

\* What rename_priority_class leaves alone, and its idempotence: no entry
\* is added or removed, every entry keeps its handle and counters, entries
\* of other identities keep their name, nothing outside the table changes,
\* and the same call made again would change nothing.
rename_frame(q, pc, n) ==
    /\ last'.outcome = "ok"
    /\ classes(q)' = classes(q)
    /\ \A c \in classes(q) :
          /\ class(q, c[1], c[2])'.ptr = class(q, c[1], c[2]).ptr
          /\ counters(class(q, c[1], c[2]))' = counters(class(q, c[1], c[2]))
          /\ c[2] # pc => class(q, c[1], c[2])' = class(q, c[1], c[2])
    /\ \A p \in Queues \ {q} : priority_classes'[p] = priority_classes[p]
    /\ UNCHANGED <<fq_classes, queued_requests, requests_executing, fg_outstanding, reqs>>
    /\ registry_unchanged
    /\ rename_rows(priority_classes'[q], 0, pc, n) = priority_classes'[q]

\* C19 (as claimed): io_queue::rename_priority_class(pc, n) never fails,
\* leaves every entry of pc in the table published under n, adds no entry,
\* changes no other entry and no counter, and made a second time changes
\* nothing.
RenameRepublishes ==
    [][\A q \in Queues : \A pc \in Ids : \A n \in Names :
          (last'.op = "rename_priority_class" /\ last'.q = q /\ last'.pc = pc /\ last'.name = n)
            => /\ rename_frame(q, pc, n)
               /\ \A c \in entries_of(q, pc) : class(q, c[1], c[2])'.name = n]_vars

\* C19, with the swallowed condition spelt out: an entry of pc ends up
\* published under n unless n is published already for its owner, and then
\* it stays published as it was.
RenameRepublishesUnlessPublished ==
    [][\A q \in Queues : \A pc \in Ids : \A n \in Names :
          (last'.op = "rename_priority_class" /\ last'.q = q /\ last'.pc = pc /\ last'.name = n)
            => /\ rename_frame(q, pc, n)
               /\ \A c \in entries_of(q, pc) :
                     class(q, c[1], c[2])'.name =
                        IF metrics_double_registration(priority_classes[q], c[1], n)
                        THEN class(q, c[1], c[2]).name ELSE n]_vars

\* The sum of nr_queued over the entries cs of io_queue q.
RECURSIVE sum_nr_queued(_, _)
sum_nr_queued(q, cs) ==
    IF cs = {} THEN 0
    ELSE LET c == CHOOSE x \in cs : TRUE
         IN  class(q, c[1], c[2]).nr_queued + sum_nr_queued(q, cs \ {c})

\* The counters of io_queue q agree with its entries and its requests.
counters_consistent(q) ==
    /\ queued_requests[q] = sum_nr_queued(q, classes(q))
    /\ queued_requests[q] = Cardinality(requests_in(q, "queued"))
    /\ requests_executing[q] = Cardinality(requests_in(q, "executing"))
    /\ queued_requests[q] >= 0
    /\ requests_executing[q] >= 0
    /\ \A c \in classes(q) : class(q, c[1], c[2]).nr_queued >= 0

\* A completion of request r: it was executing and no longer is.
completes(r) ==
    /\ r \in DOMAIN reqs
    /\ reqs[r].state = "executing"
    /\ reqs'[r].state # "executing"

\* C20: in every reachable state, for every io_queue, _queued_requests is
\* the sum of nr_queued over its entries and the number of its requests
\* admitted and not yet dispatched, _requests_executing is the number of
\* its requests dispatched and not yet completed, and none of these is
\* negative; and a completion on one io_queue changes no counter and no
\* entry of another io_queue of the same group.
CounterConsistency ==
    /\ [](\A q \in Queues : counters_consistent(q))
    /\ [][\A r \in 1 .. MaxReqs : \A p \in Queues :
            (completes(r) /\ p # reqs[r].q)
              => /\ queued_requests'[p] = queued_requests[p]
                 /\ requests_executing'[p] = requests_executing[p]
                 /\ priority_classes'[p] = priority_classes[p]]_vars

\* One io_queue has completed a request while the other one of the group
\* has a request queued and one executing.
CounterConsistencyWitness ==
    /\ \A q \in Queues : counters_consistent(q)
    /\ \E r \in DOMAIN reqs : \E p \in Queues :
          /\ reqs[r].state = "done"
          /\ p # reqs[r].q
          /\ queued_requests[p] + requests_executing[p] > 0
          /\ requests_in(p, "queued") \cup requests_in(p, "executing") # {}

====
